---- MODULE Spec2Model ----
(***************************************************************************)
(* Dual-axis turntable firmware (src/src/ref_esp8266/main.cpp with the     *)
(* GearedStepper wrapper).  One behaviour step is one pass of loop(): both *)
(* steppers are run, then at most one serial line is read and dispatched.  *)
(*                                                                         *)
(* Numbers.  Positions and pulse counts are integers.  Speeds and          *)
(* accelerations are C floats in the source; here they are exact rationals *)
(* stored as integers in units of 1/SpeedUnit, so x*1.10f is x*11/10 and   *)
(* x*RATIO_TT_TO_VT is x*GEAR_RATIO_VT/GEAR_RATIO_TT without rounding.     *)
(* Angles are exact decimals [n, d] (value n/d).                           *)
(***************************************************************************)
EXTENDS Integers, Sequences, FiniteSets, TLC

(* ------------------------------------------------------------------ *)
(* Bounds of the exploration                                            *)
(* ------------------------------------------------------------------ *)
\* a motion is followed while the position stays in -MaxPos..MaxPos
MaxPos == 1
\* commands (lines that are not empty) sent in one run of the firmware
MaxCmds == 3
\* steps of deceleration a stop() may ask for
MaxStop == 2
\* decimal digits kept behind the point of a speed; a speed adjustment is
\* explored only while its result is still representable
SpeedDigits == 0

(* ------------------------------------------------------------------ *)
(* Pins and levels (main.cpp, pin mapping)                              *)
(* ------------------------------------------------------------------ *)
LOW  == "LOW"
HIGH == "HIGH"

TT_ENABLE_PIN == "D0"
\* (variant: the tilt driver has an enable line of its own)
VT_ENABLE_PIN_Own == "D8"
VT_ENABLE_PIN == "D0"
MS1_PIN == "D1"
MS2_PIN == "D2"
MS3_PIN == "D3"
Pins == {TT_ENABLE_PIN, VT_ENABLE_PIN, MS1_PIN, MS2_PIN, MS3_PIN}

\* the two GearedStepper instances
turntableStepper == "pan"
tiltStepper      == "tilt"
Axes == {turntableStepper, tiltStepper}

\* constructor argument enable_pin of each instance
enable_pin == [a \in Axes |-> IF a = turntableStepper THEN TT_ENABLE_PIN ELSE VT_ENABLE_PIN]

(* ------------------------------------------------------------------ *)
(* Mechanics                                                            *)
(* ------------------------------------------------------------------ *)
MOTOR_STEPS_PER_REV == 100
\* gear ratios in thousandths: 11.335 and 6.2 * 7.5 = 46.5
GEAR_RATIO_TT == 11335
GEAR_RATIO_VT == 62 * 75 * 10
GearScale == 10 * 10 * 10
gear_ratio == [a \in Axes |-> IF a = turntableStepper THEN GEAR_RATIO_TT ELSE GEAR_RATIO_VT]

Abs(x) == IF x < 0 THEN -x ELSE x
Sgn(x) == IF x > 0 THEN 1 ELSE IF x < 0 THEN -1 ELSE 0

\* lroundf of the rational num/den (den > 0): nearest integer, halves away
\* from zero
lroundf(num, den) ==
    IF num >= 0 THEN (2 * num + den) \div (2 * den)
                ELSE -((2 * (-num) + den) \div (2 * den))

RECURSIVE Pow10(_)
Pow10(k) == IF k = 0 THEN 1 ELSE 10 * Pow10(k - 1)

\* one step per second (resp. per second squared) in stored units; a multiple
\* of GEAR_RATIO_TT so that multiplying by RATIO_TT_TO_VT stays exact
SpeedUnit == GEAR_RATIO_TT * Pow10(SpeedDigits)
ROT_SPEED0 == 150 * SpeedUnit
ROT_ACCEL0 == 80 * SpeedUnit

\* x * RATIO_TT_TO_VT, RATIO_TT_TO_VT = GEAR_RATIO_VT / GEAR_RATIO_TT
\* (x is a multiple of GEAR_RATIO_TT; dividing first keeps the product small)
TimesRatio(x) == (x \div GEAR_RATIO_TT) * GEAR_RATIO_VT
\* x * f for the factor f = fnum/10 (1.10f is 11/10, 0.90f is 9/10); exact
\* when x is a multiple of 10, which Representable states
TimesFactor(x, fnum) == (x \div 10) * fnum
Representable(x) == x % 10 = 0

(* ------------------------------------------------------------------ *)
(* Serial lines: sequences of one-character strings                     *)
(* ------------------------------------------------------------------ *)
WhiteSpace == {" ", "\t", "\r"}
Digits == {"0", "1", "2", "3", "4", "5", "6", "7", "8", "9"}
DigitVal(ch) ==
    CASE ch = "0" -> 0 [] ch = "1" -> 1 [] ch = "2" -> 2 [] ch = "3" -> 3
      [] ch = "4" -> 4 [] ch = "5" -> 5 [] ch = "6" -> 6 [] ch = "7" -> 7
      [] ch = "8" -> 8 [] ch = "9" -> 9

RECURSIVE TrimLeft(_)
TrimLeft(s) ==
    IF s # <<>> /\ Head(s) \in WhiteSpace THEN TrimLeft(Tail(s)) ELSE s

RECURSIVE TrimRight(_)
TrimRight(s) ==
    IF s # <<>> /\ s[Len(s)] \in WhiteSpace
    THEN TrimRight(SubSeq(s, 1, Len(s) - 1)) ELSE s

\* String::trim()
trim(s) == TrimRight(TrimLeft(s))

\* first index >= i of s that holds no white space (Len(s)+1 at the end)
RECURSIVE SkipSpace(_, _)
SkipSpace(s, i) ==
    IF i <= Len(s) /\ s[i] \in WhiteSpace THEN SkipSpace(s, i + 1) ELSE i

\* the digits of s from index i on: [n |-> their value after acc, k |-> how
\* many, next |-> index behind them]
RECURSIVE ReadDigits(_, _, _, _)
ReadDigits(s, i, acc, k) ==
    IF i <= Len(s) /\ s[i] \in Digits
    THEN ReadDigits(s, i + 1, 10 * acc + DigitVal(s[i]), k + 1)
    ELSE [n |-> acc, k |-> k, next |-> i]

\* One %f conversion: leading white space, an optional sign, digits with
\* an optional decimal point.  The result is [ok, eof, n, d, next]; the
\* value is n/d.  eof: the input ended before any character of the number.
\* (j: index behind the white space; ip: the integer digits; fp: the digits
\* including the fraction.)
ScanResult(s, j, ip, fp) ==
    [ok   |-> ip.k + fp.k >= 1,
     eof  |-> j > Len(s),
     n    |-> IF ip.k + fp.k < 1 THEN 0
              ELSE IF j <= Len(s) /\ s[j] = "-" THEN -fp.n ELSE fp.n,
     d    |-> IF ip.k + fp.k >= 1 THEN Pow10(fp.k) ELSE 1,
     next |-> fp.next]
ScanFraction(s, j, ip) ==
    ScanResult(s, j, ip,
               IF ip.next <= Len(s) /\ s[ip.next] = "."
               THEN ReadDigits(s, ip.next + 1, ip.n, 0)
               ELSE [n |-> ip.n, k |-> 0, next |-> ip.next])
ScanSigned(s, j) ==
    ScanFraction(s, j,
                 ReadDigits(s, IF j <= Len(s) /\ s[j] \in {"+", "-"} THEN j + 1 ELSE j,
                            0, 0))
ScanFloat(s, i) == ScanSigned(s, SkipSpace(s, i))

\* sscanf(s, "%f %f", &a, &b): the number of conversions made (-1 for EOF
\* before the first), and the two values (0 where not converted)
ScanCount(f1, f2) ==
    IF ~f1.ok
    THEN [count |-> IF f1.eof THEN -1 ELSE 0,
          a |-> [n |-> 0, d |-> 1], b |-> [n |-> 0, d |-> 1]]
    ELSE IF ~f2.ok
    THEN [count |-> 1, a |-> [n |-> f1.n, d |-> f1.d], b |-> [n |-> 0, d |-> 1]]
    ELSE [count |-> 2, a |-> [n |-> f1.n, d |-> f1.d],
                        b |-> [n |-> f2.n, d |-> f2.d]]
ScanSecond(s, f1) == ScanCount(f1, ScanFloat(s, f1.next))
sscanf2(s) == ScanSecond(s, ScanFloat(s, 1))

\* the lines the serial peer sends (without the terminating newline)
MoveLines ==
    { <<"M", " ", "0", ".", "0", "2", " ", "0", ".", "0", "0", "5">>,
      <<"m", "-", "0", ".", "0", "2", " ", "-", ".", "0", "0", "5">>,
      <<"M", " ", "0", ".", "3", " ", "0">>,
      <<"M", " ", "0", " ", "0">>,
      <<"M", " ", "1", "0">>,
      <<"M">> }
LetterLines ==
    { <<ch>> : ch \in {"V", "v", "Q", "n", "N", "c", "r", "x", "X", "w",
                       "p", "P", "t", "z", "Z", "d", "e", "E"} }
OtherLines ==
    { <<ch>> : ch \in {"1", "2", "4", "8", "6", "+", "-", "?"} }
      \cup { <<>>, <<" ", "\r">>, <<" ", "n", "\r">> }
Lines == MoveLines \cup LetterLines \cup OtherLines

(* ------------------------------------------------------------------ *)
(* GearedStepper, over a machine state m: a record with the fields      *)
(*   currentPos, targetPos, maxSpd, accel  (of each axis's AccelStepper)*)
(*   microstep_resolution                  (of each GearedStepper)      *)
(*   pin                                   (level of each output pin)   *)
(*   dir                                   (Axis::dir of rot and til)   *)
(* ------------------------------------------------------------------ *)
FW_VERSION_REPLY == "VERSION 1.0.1"

enable(m, a)  == [m EXCEPT !.pin[enable_pin[a]] = LOW]
disable(m, a) == [m EXCEPT !.pin[enable_pin[a]] = HIGH]

WriteSelect(m, l1, l2, l3) ==
    [m EXCEPT !.pin[MS1_PIN] = l1, !.pin[MS2_PIN] = l2, !.pin[MS3_PIN] = l3]

setMicrostepResolution(m, a, res) ==
    LET m1 == [m EXCEPT !.microstep_resolution[a] = res]
    IN  CASE res = 1  -> WriteSelect(m1, LOW,  LOW,  LOW)
          [] res = 2  -> WriteSelect(m1, HIGH, LOW,  LOW)
          [] res = 4  -> WriteSelect(m1, LOW,  HIGH, LOW)
          [] res = 8  -> WriteSelect(m1, HIGH, HIGH, LOW)
          [] res = 16 -> WriteSelect(m1, HIGH, HIGH, HIGH)
          [] OTHER    -> m1

getMicrostepResolution(m, a) == m.microstep_resolution[a]

getOutputStepsPerRotation(a) ==
    lroundf(MOTOR_STEPS_PER_REV * gear_ratio[a], GearScale)

setMaxSpeed(m, a, v)     == [m EXCEPT !.maxSpd[a] = v]
setAcceleration(m, a, x) == [m EXCEPT !.accel[a] = x]

distanceToGo(m, a) == m.targetPos[a] - m.currentPos[a]

\* AccelStepper::move: the new target is relative to the current position
move(m, a, rel) == [m EXCEPT !.targetPos[a] = m.currentPos[a] + rel]

\* AccelStepper::run: at most one step towards the target per call, and
\* only if the step interval has elapsed (either outcome is possible)
run(m, a) ==
    {m} \cup
    IF distanceToGo(m, a) = 0 THEN {}
    ELSE {[m EXCEPT !.currentPos[a] = @ + Sgn(distanceToGo(m, a))]}

\* AccelStepper::stop: at rest nothing happens; while moving the target is
\* pulled in to the point where the deceleration ramp ends, at least one
\* step ahead and no further than the target was
stop(m, a) ==
    LET dtg == distanceToGo(m, a)
    IN  IF dtg = 0 THEN {m}
        ELSE {[m EXCEPT !.targetPos[a] = m.currentPos[a] + Sgn(dtg) * k] :
                  k \in 1..(IF Abs(dtg) < MaxStop THEN Abs(dtg) ELSE MaxStop)}

\* GearedStepper::maxSpeed(): the function calls itself without end.  The
\* call either never returns (ret = FALSE) or, the recursion having no
\* effect, returns whatever is in the result register: the value the
\* stepper holds or any other.
GarbageSpeeds == {0}
maxSpeed(m, a) ==
    {[ret |-> FALSE, val |-> 0]} \cup
    {[ret |-> TRUE, val |-> v] : v \in {m.maxSpd[a]} \cup GarbageSpeeds}

(* ------------------------------------------------------------------ *)
(* main.cpp helpers                                                     *)
(* ------------------------------------------------------------------ *)
\* (variant: the pulses of full steps, the microstep resolution left out)
degToMicrosteps_FullSteps(m, a, deg) ==
    LET u == getOutputStepsPerRotation(a)
    IN  lroundf(deg.n * u, deg.d * 360)

\* deg is the decimal [n, d]
degToMicrosteps(m, a, deg) ==
    LET u == getOutputStepsPerRotation(a) * getMicrostepResolution(m, a)
    IN  lroundf(deg.n * u, deg.d * 360)

\* (variant: the tilt axis is given the pan axis's values unscaled)
setRotaryMotorSpeed_Unscaled(m, v, x) ==
    LET m1 == setMaxSpeed(m, turntableStepper, v)
        m2 == setAcceleration(m1, turntableStepper, x)
        m3 == setMaxSpeed(m2, tiltStepper, v)
    IN  setAcceleration(m3, tiltStepper, x)

setRotaryMotorSpeed(m, v, x) ==
    LET m1 == setMaxSpeed(m, turntableStepper, v)
        m2 == setAcceleration(m1, turntableStepper, x)
        m3 == setMaxSpeed(m2, tiltStepper, TimesRatio(v))
    IN  setAcceleration(m3, tiltStepper, TimesRatio(x))

\* GearedStepper::begin
begin(m, a) == setMicrostepResolution(disable(m, a), a, 16)

\* the machine as constructed: positions 0, resolution 1, direction +1; the
\* pins and the stepper's speed settings get their values in setup()
Constructed ==
    [currentPos |-> [a \in Axes |-> 0],
     targetPos  |-> [a \in Axes |-> 0],
     maxSpd     |-> [a \in Axes |-> SpeedUnit],
     accel      |-> [a \in Axes |-> 0],
     microstep_resolution |-> [a \in Axes |-> 1],
     pin        |-> [p \in Pins |-> LOW],
     dir        |-> [a \in Axes |-> 1]]

setup ==
    setRotaryMotorSpeed(begin(begin(Constructed, turntableStepper), tiltStepper),
                        ROT_SPEED0, ROT_ACCEL0)

(* ------------------------------------------------------------------ *)
(* loop(): the line dispatcher                                          *)
(* An outcome is [m |-> machine state, out |-> reply lines printed,     *)
(* hung |-> the handler never returned].                                *)
(* ------------------------------------------------------------------ *)
Ret(m, msgs) == [m |-> m, out |-> msgs, hung |-> FALSE]
\* ack(msg); return;
ack(m, msg) == Ret(m, <<msg>>)
Hang(m) == [m |-> m, out |-> <<>>, hung |-> TRUE]

MicrostepReply(res) ==
    CASE res = 1 -> "OK MICROSTEP 1" [] res = 2 -> "OK MICROSTEP 2"
      [] res = 4 -> "OK MICROSTEP 4" [] res = 8 -> "OK MICROSTEP 8"
      [] res = 16 -> "OK MICROSTEP 16"

\* (variant: the tilt move is computed with the pan stepper)
moveParsed_PanSteps(m, sc) ==
    {ack(move(move(enable(enable(m, turntableStepper), tiltStepper),
                   turntableStepper, degToMicrosteps(m, turntableStepper, sc.a)),
              tiltStepper, degToMicrosteps(m, turntableStepper, sc.b)),
         "OK M")}

\* the M branch once sscanf has filled panDeg, tiltDeg (sc.a, sc.b)
moveParsed(m, sc) ==
    {ack(move(move(enable(enable(m, turntableStepper), tiltStepper),
                   turntableStepper, degToMicrosteps(m, turntableStepper, sc.a)),
              tiltStepper, degToMicrosteps(m, tiltStepper, sc.b)),
         "OK M")}

\* (variant: one converted field is taken for a complete argument list)
moveScanned_OneField(m, sc) ==
    IF sc.count < 1 THEN {ack(m, "ERR Syntax")} ELSE moveParsed(m, sc)

\* the M branch behind the sscanf call
moveScanned(m, sc) ==
    IF sc.count # 2 THEN {ack(m, "ERR Syntax")} ELSE moveParsed(m, sc)

\* if (c == 'M' || c == 'm') { ... }
moveBranch(m, ln) == moveScanned(m, sscanf2(Tail(ln)))

\* (variant: only the pan axis is asked for its distance to go)
queryBranch_PanOnly(m) ==
    IF distanceToGo(m, turntableStepper) # 0
    THEN {ack(m, "BUSY")}
    ELSE {ack(disable(disable(m, turntableStepper), tiltStepper), "DONE")}

\* if (c == 'Q' || c == 'q') { ... }
queryBranch(m) ==
    IF distanceToGo(m, turntableStepper) # 0 \/ distanceToGo(m, tiltStepper) # 0
    THEN {ack(m, "BUSY")}
    ELSE {ack(disable(disable(m, turntableStepper), tiltStepper), "DONE")}

\* (variant: the digit is taken as the resolution, 6 not mapped to 16)
microstepBranch_RawDigit(m, c) ==
    LET res == DigitVal(c)
        m1  == setMicrostepResolution(m, turntableStepper, res)
        m2  == setMicrostepResolution(m1, tiltStepper, res)
    IN  {ack(m2, IF res = 6 THEN "OK MICROSTEP 6" ELSE MicrostepReply(res))}

\* (variant: the pulses still to go are converted to the new resolution)
microstepBranch_Rescale(m, c) ==
    LET res == IF c = "6" THEN 16 ELSE DigitVal(c)
        m1  == setMicrostepResolution(m, turntableStepper, res)
        m2  == setMicrostepResolution(m1, tiltStepper, res)
    IN  {ack([m2 EXCEPT !.targetPos =
                  [a \in Axes |-> m.currentPos[a] +
                      (distanceToGo(m, a) * res) \div m.microstep_resolution[a]]],
             MicrostepReply(res))}

\* if (strchr("12486", c)) { ... }
microstepBranch(m, c) ==
    LET res == IF c = "6" THEN 16 ELSE DigitVal(c)
        m1  == setMicrostepResolution(m, turntableStepper, res)
        m2  == setMicrostepResolution(m1, tiltStepper, res)
    IN  {ack(m2, MicrostepReply(res))}

\* one full output revolution in pulses at the current resolution
Revolution(m, a) == getOutputStepsPerRotation(a) * getMicrostepResolution(m, a)

\* (variant: reversing the direction also drops the outstanding target)
panSwitch_ToggleHalts(m, c) ==
    LET rot == turntableStepper
    IN  CASE c \in {"n", "N"} -> {ack(move(m, rot, m.dir[rot]), "OK ROT STEP")}
          [] c \in {"c", "C"} ->
                 {ack(move(m, rot, m.dir[rot] * Revolution(m, rot)), "OK ROT REV")}
          [] c \in {"r", "R"} ->
                 {ack(move([m EXCEPT !.dir[rot] = -m.dir[rot]], rot, 0), "OK ROT DIR")}
          [] c \in {"x", "X"} -> {ack(m1, "OK ROT STOP") : m1 \in stop(m, rot)}
          [] OTHER -> {}

\* switch (c) of the pan axis; {} when no case matches (fall through)
panSwitch(m, c) ==
    LET rot == turntableStepper
    IN  CASE c \in {"n", "N"} -> {ack(move(m, rot, m.dir[rot]), "OK ROT STEP")}
          [] c \in {"c", "C"} ->
                 {ack(move(m, rot, m.dir[rot] * Revolution(m, rot)), "OK ROT REV")}
          [] c \in {"r", "R"} ->
                 {ack([m EXCEPT !.dir[rot] = -m.dir[rot]], "OK ROT DIR")}
          [] c \in {"x", "X"} -> {ack(m1, "OK ROT STOP") : m1 \in stop(m, rot)}
          [] OTHER -> {}

\* (variant: a tilt jog switches the tilt driver on before it moves)
tiltSwitch_Enabling(m, c) ==
    LET til == tiltStepper
    IN  CASE c \in {"w", "W"} ->
                 {ack(move(enable(m, til), til, m.dir[til]), "OK TILT STEP")}
          [] c \in {"p", "P"} ->
                 {ack(move(enable(m, til), til, m.dir[til] * Revolution(m, til)),
                      "OK TILT REV")}
          [] c \in {"t", "T"} ->
                 {ack([m EXCEPT !.dir[til] = -m.dir[til]], "OK TILT DIR")}
          [] c = "z" -> {ack(m1, "OK TILT STOP") : m1 \in stop(m, til)}
          [] OTHER -> {}

\* switch (c) of the tilt axis; {} when no case matches (fall through)
tiltSwitch(m, c) ==
    LET til == tiltStepper
    IN  CASE c \in {"w", "W"} -> {ack(move(m, til, m.dir[til]), "OK TILT STEP")}
          [] c \in {"p", "P"} ->
                 {ack(move(m, til, m.dir[til] * Revolution(m, til)), "OK TILT REV")}
          [] c \in {"t", "T"} ->
                 {ack([m EXCEPT !.dir[til] = -m.dir[til]], "OK TILT DIR")}
          [] c = "z" -> {ack(m1, "OK TILT STOP") : m1 \in stop(m, til)}
          [] OTHER -> {}

\* if (c == '+' || c == '-') { ... }
speedBranch(m, c) ==
    LET f == IF c = "+" THEN 11 ELSE 9
    IN  { IF r.ret
          THEN ack(setRotaryMotorSpeed(m, TimesFactor(r.val, f),
                                          TimesFactor(ROT_ACCEL0, f)), "OK SPEED")
          ELSE Hang(m) : r \in maxSpeed(m, turntableStepper) }

\* if (c == 'X') { ... }
stopAllBranch(m) ==
    {ack(m2, "OK STOP") : m2 \in UNION {stop(m1, tiltStepper) :
                                           m1 \in stop(m, turntableStepper)}}

\* (variant: d toggles the enable line instead of driving it inactive)
driversOffBranch_Toggle(m) ==
    {ack([m EXCEPT !.pin[TT_ENABLE_PIN] = IF @ = LOW THEN HIGH ELSE LOW],
         "OK DRIVERS OFF")}

\* if (c == 'd' || c == 'D') { ... }
driversOffBranch(m) ==
    {ack(disable(disable(m, turntableStepper), tiltStepper), "OK DRIVERS OFF")}

\* (variant: switching the drivers on drops the outstanding targets)
driversOnBranch_ClearTarget(m) ==
    {ack(move(move(enable(enable(m, turntableStepper), tiltStepper),
                   turntableStepper, 0), tiltStepper, 0), "OK DRIVERS ON")}

\* if (c == 'e' || c == 'E') { ... }
driversOnBranch(m) ==
    {ack(enable(enable(m, turntableStepper), tiltStepper), "OK DRIVERS ON")}

\* the body of loop() behind the two run() calls, for a trimmed non-empty
\* line: the tests in the order of the source
dispatch(m, ln) ==
    LET c == Head(ln)
    IN  IF c \in {"V", "v"} THEN {ack(m, FW_VERSION_REPLY)}
        ELSE IF c \in {"M", "m"} THEN moveBranch(m, ln)
        ELSE IF c \in {"Q", "q"} THEN queryBranch(m)
        ELSE IF c \in {"1", "2", "4", "8", "6"} THEN microstepBranch(m, c)
        ELSE IF panSwitch(m, c) # {} THEN panSwitch(m, c)
        ELSE IF tiltSwitch(m, c) # {} THEN tiltSwitch(m, c)
        ELSE IF c \in {"+", "-"} THEN speedBranch(m, c)
        ELSE IF c = "X" THEN stopAllBranch(m)
        ELSE IF c \in {"d", "D"} THEN driversOffBranch(m)
        ELSE IF c \in {"e", "E"} THEN driversOnBranch(m)
        ELSE {ack(m, "ERR Unknown")}

\* (variant: only the pan stepper is run)
runBoth_PanOnly(m) == run(m, turntableStepper)

\* turntableStepper.run(); tiltStepper.run();
runBoth(m) == UNION {run(m1, tiltStepper) : m1 \in run(m, turntableStepper)}

\* what follows the run() calls: avail is Serial.available(), raw the line
\* readStringUntil('\n') returns
afterRun(m, avail, raw) ==
    IF ~avail THEN {Ret(m, <<>>)}
    ELSE IF Len(trim(raw)) = 0 THEN {Ret(m, <<>>)}
    ELSE dispatch(m, trim(raw))

\* (variant: the steppers are run only in a pass that finds serial input)
loop_InputFirst(m, avail, raw) ==
    IF ~avail THEN {Ret(m, <<>>)}
    ELSE UNION {afterRun(m1, avail, raw) : m1 \in runBoth(m)}

loop(m, avail, raw) == UNION {afterRun(m1, avail, raw) : m1 \in runBoth(m)}

(* ------------------------------------------------------------------ *)
(* The state machine                                                    *)
(* ------------------------------------------------------------------ *)
VARIABLES
    currentPos,            \* AccelStepper position of each axis
    targetPos,             \* AccelStepper target of each axis
    maxSpd,                \* AccelStepper max speed of each axis
    accel,                 \* AccelStepper acceleration of each axis
    microstep_resolution,  \* GearedStepper::_microstep_resolution
    pin,                   \* level of each output pin
    dir,                   \* Axis::dir
    hung,                  \* a handler never returned: loop() runs no more
    cmds,                  \* number of commands dispatched so far
    call,                  \* the last direct call of a GearedStepper method
    avail,                 \* the last pass of loop() found serial input
    line,                  \* the line the last pass read (as received)
    out                    \* the reply lines the last pass printed

vars == <<currentPos, targetPos, maxSpd, accel, microstep_resolution, pin,
          dir, hung, cmds, call, avail, line, out>>

\* the machine state as a record
M == [currentPos |-> currentPos, targetPos |-> targetPos, maxSpd |-> maxSpd,
      accel |-> accel, microstep_resolution |-> microstep_resolution,
      pin |-> pin, dir |-> dir]

Becomes(m) ==
    /\ currentPos' = m.currentPos
    /\ targetPos' = m.targetPos
    /\ maxSpd' = m.maxSpd
    /\ accel' = m.accel
    /\ microstep_resolution' = m.microstep_resolution
    /\ pin' = m.pin
    /\ dir' = m.dir

\* op: the method; axis: the instance; arg: its integer argument; deg: its
\* angle argument; ret: the value returned
NoDeg == [n |-> 0, d |-> 1]
NoCall == [op |-> "none", axis |-> turntableStepper, arg |-> 0,
           deg |-> NoDeg, ret |-> 0]

\* after setup(); the banner is not a reply to a command
Init ==
    /\ currentPos = setup.currentPos
    /\ targetPos = setup.targetPos
    /\ maxSpd = setup.maxSpd
    /\ accel = setup.accel
    /\ microstep_resolution = setup.microstep_resolution
    /\ pin = setup.pin
    /\ dir = setup.dir
    /\ hung = FALSE
    /\ cmds = 0
    /\ call = NoCall
    /\ avail = FALSE
    /\ line = <<>>
    /\ out = <<>>

\* the lines as trim() leaves them
Trimmed == [raw \in Lines |-> trim(raw)]
\* the trigger character of a line that is not empty after trimming
Trigger(raw) == Head(Trimmed[raw])
NonEmpty(raw) == Trimmed[raw] # <<>>

InBounds(m) == \A a \in Axes : Abs(m.currentPos[a]) <= MaxPos

\* one pass of loop()
Cycle(av, raw) ==
    /\ ~hung
    /\ IF av /\ NonEmpty(raw)
       THEN cmds < MaxCmds /\ cmds' = cmds + 1
       ELSE cmds' = cmds
    /\ \E o \in loop(M, av, raw) :
        /\ InBounds(o.m)
        /\ Becomes(o.m)
        /\ hung' = o.hung
        /\ out' = o.out
    /\ avail' = av
    /\ line' = raw
    /\ UNCHANGED call

PanChars  == {"n", "N", "c", "C", "r", "R", "x", "X"}
TiltChars == {"w", "W", "p", "P", "t", "T", "z"}
KnownChars ==
    {"V", "v", "M", "m", "Q", "q", "1", "2", "4", "8", "6", "+", "-",
     "d", "D", "e", "E"} \cup PanChars \cup TiltChars

NoInput == Cycle(FALSE, <<>>)
EmptyLine == \E raw \in Lines : ~NonEmpty(raw) /\ Cycle(TRUE, raw)
Version ==
    \E raw \in Lines : NonEmpty(raw) /\ Trigger(raw) \in {"V", "v"} /\ Cycle(TRUE, raw)
MoveCmd ==
    \E raw \in Lines : NonEmpty(raw) /\ Trigger(raw) \in {"M", "m"} /\ Cycle(TRUE, raw)
Query ==
    \E raw \in Lines : NonEmpty(raw) /\ Trigger(raw) \in {"Q", "q"} /\ Cycle(TRUE, raw)
Microstep ==
    \E raw \in Lines :
        NonEmpty(raw) /\ Trigger(raw) \in {"1", "2", "4", "8", "6"} /\ Cycle(TRUE, raw)
PanCmd ==
    \E raw \in Lines : NonEmpty(raw) /\ Trigger(raw) \in PanChars /\ Cycle(TRUE, raw)
TiltCmd ==
    \E raw \in Lines : NonEmpty(raw) /\ Trigger(raw) \in TiltChars /\ Cycle(TRUE, raw)
SpeedAdjust ==
    \E raw \in Lines :
        /\ NonEmpty(raw) /\ Trigger(raw) \in {"+", "-"}
        /\ Representable(maxSpd[turntableStepper])
        /\ Cycle(TRUE, raw)
DriversOff ==
    \E raw \in Lines : NonEmpty(raw) /\ Trigger(raw) \in {"d", "D"} /\ Cycle(TRUE, raw)
DriversOn ==
    \E raw \in Lines : NonEmpty(raw) /\ Trigger(raw) \in {"e", "E"} /\ Cycle(TRUE, raw)
Unknown ==
    \E raw \in Lines : NonEmpty(raw) /\ Trigger(raw) \notin KnownChars /\ Cycle(TRUE, raw)

Next ==
    \/ NoInput
    \/ EmptyLine
    \/ Version
    \/ MoveCmd
    \/ Query
    \/ Microstep
    \/ PanCmd
    \/ TiltCmd
    \/ SpeedAdjust
    \/ DriversOff
    \/ DriversOn
    \/ Unknown

Spec == Init /\ [][Next]_vars

(* ------------------------------------------------------------------ *)
(* The GearedStepper interface called directly (not through the line    *)
(* dispatcher), with arguments of any value                             *)
(* ------------------------------------------------------------------ *)
ValidRes == {1, 2, 4, 8, 16}
ResInputs == ValidRes \cup {0, 3, 6}

Untouched == UNCHANGED <<hung, cmds, avail, line, out>>

CallSetMicrostepResolution ==
    \E a \in Axes, res \in ResInputs :
        /\ Becomes(setMicrostepResolution(M, a, res))
        /\ call' = [op |-> "setMicrostepResolution", axis |-> a, arg |-> res,
                    deg |-> NoDeg, ret |-> 0]
        /\ Untouched
CallEnable ==
    \E a \in Axes :
        /\ Becomes(enable(M, a))
        /\ call' = [op |-> "enable", axis |-> a, arg |-> 0, deg |-> NoDeg, ret |-> 0]
        /\ Untouched
CallDisable ==
    \E a \in Axes :
        /\ Becomes(disable(M, a))
        /\ call' = [op |-> "disable", axis |-> a, arg |-> 0, deg |-> NoDeg, ret |-> 0]
        /\ Untouched

\* the angles degToMicrosteps is called with, in degrees
DegInputs ==
    { [n |-> 0, d |-> 1], [n |-> 2, d |-> 100], [n |-> -5, d |-> 1000],
      [n |-> 625, d |-> 1000], [n |-> 1, d |-> 1], [n |-> 45, d |-> 1],
      [n |-> -45, d |-> 1], [n |-> 360, d |-> 1], [n |-> -360, d |-> 1] }
CallDegToMicrosteps ==
    \E a \in Axes, deg \in DegInputs :
        /\ call' = [op |-> "degToMicrosteps", axis |-> a, arg |-> 0, deg |-> deg,
                    ret |-> degToMicrosteps(M, a, deg)]
        /\ UNCHANGED <<currentPos, targetPos, maxSpd, accel, microstep_resolution,
                       pin, dir>>
        /\ Untouched

NextStepper ==
    \/ CallSetMicrostepResolution
    \/ CallEnable
    \/ CallDisable
    \/ CallDegToMicrosteps

SpecStepper == Init /\ [][NextStepper]_vars

(* ------------------------------------------------------------------ *)
(* loop() called for ever, as the Arduino core does: the moves asked    *)
(* for stay within the positions followed, no line reaches the speed    *)
(* handler (a pass that never returns ends the calling), and a step     *)
(* that is due is eventually made by some pass without input            *)
(* ------------------------------------------------------------------ *)
\* every target is among the positions followed
Reachable(m) == \A a \in Axes : Abs(m.targetPos[a]) <= MaxPos

LiveCycle(av, raw) == Cycle(av, raw) /\ Reachable(M')

LiveIdle == LiveCycle(FALSE, <<>>)
LiveMove ==
    \E raw \in Lines :
        NonEmpty(raw) /\ Trigger(raw) \in {"M", "m"} /\ LiveCycle(TRUE, raw)
LiveJog ==
    \E raw \in Lines :
        NonEmpty(raw) /\ Trigger(raw) \in {"n", "N", "w"} /\ LiveCycle(TRUE, raw)
LiveStop ==
    \E raw \in Lines :
        NonEmpty(raw) /\ Trigger(raw) \in {"x", "X", "z"} /\ LiveCycle(TRUE, raw)
LiveQuery ==
    \E raw \in Lines :
        NonEmpty(raw) /\ Trigger(raw) \in {"Q", "q"} /\ LiveCycle(TRUE, raw)
LiveDrivers ==
    \E raw \in Lines :
        NonEmpty(raw) /\ Trigger(raw) \in {"d", "D", "e", "E"} /\ LiveCycle(TRUE, raw)

NextLive ==
    \/ LiveIdle
    \/ LiveMove
    \/ LiveJog
    \/ LiveStop
    \/ LiveQuery
    \/ LiveDrivers

\* a pass without input in which a stepper makes a step
LiveAdvance == LiveIdle /\ currentPos' # currentPos

SpecLive == Init /\ [][NextLive]_vars /\ WF_vars(LiveAdvance)

(* ------------------------------------------------------------------ *)
(* Properties                                                           *)
(* ------------------------------------------------------------------ *)
rot == turntableStepper
til == tiltStepper

\* the machine states in which the next pass of loop() can reach its
\* dispatcher: the current state after the two run() calls.  A pass without
\* input ends in just such a state, so the reachable states and the states
\* at dispatch time are the same, and a property of the dispatcher in every
\* state at dispatch time is stated of the dispatcher applied to M.
AtDispatch == runBoth(M)

Enabled(m, a) == m.pin[enable_pin[a]] = LOW
Busy(m) == \E a \in Axes : distanceToGo(m, a) # 0

\* the last pass of loop() read a line that was not empty after trimming
ReadCommand == avail /\ NonEmpty(line)

\* C1: every pass of loop() that reads a line prints exactly one reply if
\* the trimmed line is not empty, whatever its first character, and prints
\* nothing and changes nothing behind the run() calls if it is empty.
C1_OneReplyPerLine ==
    /\ avail => IF NonEmpty(line) THEN Len(out) = 1 ELSE out = <<>>
    /\ \A raw \in Lines : ~NonEmpty(raw) =>
           afterRun(M, TRUE, raw) = {Ret(M, <<>>)}

\* C2: a Q replies BUSY exactly when an axis has distance to go at dispatch
\* time, and then changes no enable pin; otherwise it replies DONE and both
\* drivers are disabled afterwards.  A step that takes a driver from
\* enabled to disabled is a Q or a d: completing a motion alone does not.
C2_Query ==
    [][ /\ (avail' /\ NonEmpty(line') /\ Trigger(line') \in {"Q", "q"}) =>
            /\ out' \in {<<"BUSY">>, <<"DONE">>}
            /\ (out' = <<"BUSY">>) <=> Busy(M')
            /\ out' = <<"BUSY">> => pin' = pin
            /\ out' = <<"DONE">> => \A a \in Axes : ~Enabled(M', a)
            /\ UNCHANGED <<targetPos, maxSpd, accel, microstep_resolution, dir>>
        /\ (\E a \in Axes : Enabled(M, a) /\ ~Enabled(M', a)) =>
            (avail' /\ NonEmpty(line') /\ Trigger(line') \in {"Q", "q", "d", "D"})
      ]_vars

\* a Q that found a finished motion and switched the drivers off
C2_Witness ==
    /\ ReadCommand /\ Trigger(line) = "Q" /\ out = <<"DONE">>
    /\ currentPos[rot] # 0 /\ ~Busy(M)
    /\ \A a \in Axes : ~Enabled(M, a)

\* C3: a line whose first character is X asks both axes to stop and is
\* answered OK STOP.
C3_GlobalStop ==
    [][ (avail' /\ NonEmpty(line') /\ Trigger(line') = "X") =>
            /\ out' = <<"OK STOP">>
            /\ \E m \in AtDispatch : \E o \in stopAllBranch(m) : M' = o.m
      ]_vars

\* C4: the tilt axis's max speed and acceleration are the pan axis's times
\* RATIO = GEAR_RATIO_VT / GEAR_RATIO_TT in every reachable state (stated
\* as tilt / GEAR_RATIO_VT = pan / GEAR_RATIO_TT, both divisions exact).
C4_SpeedRatio ==
    /\ maxSpd[til] % GEAR_RATIO_VT = 0 /\ maxSpd[rot] % GEAR_RATIO_TT = 0
    /\ maxSpd[til] \div GEAR_RATIO_VT = maxSpd[rot] \div GEAR_RATIO_TT
    /\ accel[til] % GEAR_RATIO_VT = 0 /\ accel[rot] % GEAR_RATIO_TT = 0
    /\ accel[til] \div GEAR_RATIO_VT = accel[rot] \div GEAR_RATIO_TT

\* a speed adjustment has replaced the boot speed and acceleration
C4_Witness ==
    /\ ReadCommand /\ Trigger(line) = "+" /\ out = <<"OK SPEED">>
    /\ maxSpd[rot] # ROT_SPEED0 /\ accel[rot] # ROT_ACCEL0
    /\ maxSpd[til] # setup.maxSpd[til]

\* C5: a + (resp. -) sets the pan max speed to 1.10 (resp. 0.90) times its
\* value before, the tilt speed following by RATIO; the handler returns and
\* replies OK SPEED in the same pass.
C5_SpeedAdjust ==
    [][ (avail' /\ NonEmpty(line') /\ Trigger(line') \in {"+", "-"}) =>
            /\ ~hung'
            /\ out' = <<"OK SPEED">>
            /\ maxSpd'[rot] =
                   TimesFactor(maxSpd[rot], IF Trigger(line') = "+" THEN 11 ELSE 9)
            /\ maxSpd'[til] = TimesRatio(maxSpd'[rot])
      ]_vars

\* the M lines of Lines with what sscanf makes of their arguments, and the
\* lines whose trigger is in no test of the dispatcher
Scanned == [raw \in {l \in Lines : NonEmpty(l) /\ Trigger(l) \in {"M", "m"}} |->
               sscanf2(Tail(Trimmed[raw]))]
MalformedMoves == {raw \in DOMAIN Scanned : Scanned[raw].count # 2}
WellFormedMoves == {raw \in DOMAIN Scanned : Scanned[raw].count = 2}
UnknownLines == {raw \in Lines : NonEmpty(raw) /\ Trigger(raw) \notin KnownChars}

C8_InvalidIgnored ==
    [][ (call'.op = "setMicrostepResolution" /\ call'.arg \notin ValidRes) =>
            /\ microstep_resolution' = microstep_resolution
            /\ pin' = pin
      ]_vars

SelectPattern(res) ==
    CASE res = 1  -> <<LOW,  LOW,  LOW>>
      [] res = 2  -> <<HIGH, LOW,  LOW>>
      [] res = 4  -> <<LOW,  HIGH, LOW>>
      [] res = 8  -> <<HIGH, HIGH, LOW>>
      [] res = 16 -> <<HIGH, HIGH, HIGH>>
      [] OTHER    -> <<>>

\* C9: in every state reachable through the protocol each axis's resolution
\* is one of 1, 2, 4, 8, 16, both axes hold the same one, and MS1, MS2, MS3
\* carry its pattern; before the first command the resolution is 16 and
\* both drivers are disabled.
C9_Microstep ==
    /\ \A a \in Axes : microstep_resolution[a] \in ValidRes
    /\ microstep_resolution[rot] = microstep_resolution[til]
    /\ <<pin[MS1_PIN], pin[MS2_PIN], pin[MS3_PIN]>> =
           SelectPattern(microstep_resolution[rot])
    /\ cmds = 0 =>
           \A a \in Axes : microstep_resolution[a] = 16 /\ ~Enabled(M, a)

\* the command 4 has been carried out after the drivers were enabled
C9_Witness ==
    /\ ReadCommand /\ line = <<"4">> /\ out = <<"OK MICROSTEP 4">>
    /\ \A a \in Axes : microstep_resolution[a] = 4 /\ Enabled(M, a)
    /\ pin[MS1_PIN] = LOW /\ pin[MS2_PIN] = HIGH /\ pin[MS3_PIN] = LOW

\* the letter triggers other than x/X
LowerTriggers == {"v", "m", "q", "n", "c", "r", "w", "p", "t", "z", "d", "e"}
UpperTriggers == {"V", "M", "Q", "N", "C", "R", "W", "P", "T", "Z", "D", "E"}
OtherCase(ch) ==
    CASE ch = "v" -> "V" [] ch = "m" -> "M" [] ch = "q" -> "Q" [] ch = "n" -> "N"
      [] ch = "c" -> "C" [] ch = "r" -> "R" [] ch = "w" -> "W" [] ch = "p" -> "P"
      [] ch = "t" -> "T" [] ch = "z" -> "Z" [] ch = "d" -> "D" [] ch = "e" -> "E"
      [] ch = "V" -> "v" [] ch = "M" -> "m" [] ch = "Q" -> "q" [] ch = "N" -> "n"
      [] ch = "C" -> "c" [] ch = "R" -> "r" [] ch = "W" -> "w" [] ch = "P" -> "p"
      [] ch = "T" -> "t" [] ch = "Z" -> "z" [] ch = "D" -> "d" [] ch = "E" -> "e"
\* the trimmed line with its trigger letter in the other case
CaseSwapped(raw) == <<OtherCase(Trigger(raw))>> \o Tail(Trimmed[raw])

\* C10: a pass that dispatches a line starting with a letter trigger other
\* than x/X changes the state and replies as the same line with the letter
\* in the other case would have.
C10_CaseInsensitive ==
    [][ (avail' /\ NonEmpty(line') /\
            Trigger(line') \in LowerTriggers \cup UpperTriggers) =>
            \E m \in AtDispatch : \E o \in dispatch(m, CaseSwapped(line')) :
                M' = o.m /\ out' = o.out /\ hung' = o.hung
      ]_vars

\* C11: for each axis and each resolution in {1,2,4,8,16}, degToMicrosteps of
\* deg is round(deg/360 * round(base steps * gear ratio) * resolution); of 360
\* degrees it is exactly getOutputStepsPerRotation times the resolution; and
\* with base steps 100 and gear ratio 11.335 (1134 output steps) at
\* resolution 16, 45 degrees give 2268 pulses.
C11_DegToPulses ==
    /\ getOutputStepsPerRotation(rot) = 1134
    /\ (call.op = "degToMicrosteps" /\ microstep_resolution[call.axis] \in ValidRes) =>
        /\ call.ret =
               lroundf(call.deg.n
                         * lroundf(MOTOR_STEPS_PER_REV * gear_ratio[call.axis], GearScale)
                         * microstep_resolution[call.axis],
                       call.deg.d * 360)
        /\ call.deg = [n |-> 360, d |-> 1] =>
               call.ret = getOutputStepsPerRotation(call.axis)
                              * microstep_resolution[call.axis]
        /\ (call.axis = rot /\ microstep_resolution[rot] = 16
                /\ call.deg = [n |-> 45, d |-> 1]) => call.ret = 2268

\* degToMicrosteps(pan, 45) has returned 2268 at resolution 16
C11_Witness ==
    /\ call.op = "degToMicrosteps" /\ call.axis = rot
    /\ call.deg = [n |-> 45, d |-> 1] /\ microstep_resolution[rot] = 16
    /\ call.ret = 2268

\* the pass that ends in the primed state read a command with a trigger in T
Dispatched(T) == avail' /\ NonEmpty(line') /\ Trigger(line') \in T
\* the primed positions are those the two run() calls of the pass left
OnlyRun == \E m \in AtDispatch : currentPos' = m.currentPos

\* C12: each axis's dir is -1 or +1; an r (resp. t) negates the pan (resp.
\* tilt) dir and nothing else, so two of them in a row restore it; the
\* handler leaves the target and the position of both axes as they were,
\* also while a move is under way.
C12_ToggleInvolution ==
    /\ [](/\ \A a \in Axes : dir[a] \in {-1, 1}
          /\ \A o1 \in afterRun(M, TRUE, <<"r">>) :
                 /\ o1.out = <<"OK ROT DIR">>
                 /\ o1.m = [M EXCEPT !.dir[rot] = -dir[rot]]
                 /\ \A m1 \in runBoth(o1.m) : \A o2 \in afterRun(m1, TRUE, <<"r">>) :
                        o2.m.dir = dir /\ o2.m.targetPos = targetPos
          /\ \A o1 \in afterRun(M, TRUE, <<"t">>) :
                 /\ o1.out = <<"OK TILT DIR">>
                 /\ o1.m = [M EXCEPT !.dir[til] = -dir[til]]
                 /\ \A m1 \in runBoth(o1.m) : \A o2 \in afterRun(m1, TRUE, <<"t">>) :
                        o2.m.dir = dir /\ o2.m.targetPos = targetPos)
    /\ [][  /\ Dispatched({"r", "R"}) =>
                /\ dir'[rot] = -dir[rot] /\ dir'[til] = dir[til]
                /\ targetPos' = targetPos /\ OnlyRun
            /\ Dispatched({"t", "T"}) =>
                /\ dir'[til] = -dir[til] /\ dir'[rot] = dir[rot]
                /\ targetPos' = targetPos /\ OnlyRun
          ]_vars

\* an r has reversed the pan direction while the pan axis was moving
C12_Witness ==
    /\ ReadCommand /\ line = <<"r">> /\ out = <<"OK ROT DIR">>
    /\ dir[rot] = -1 /\ distanceToGo(M, rot) # 0 /\ currentPos[rot] # 0

\* C13: a d is answered OK DRIVERS OFF and leaves both drivers disabled,
\* whatever the state it finds; a second d in the next pass is answered the
\* same and changes nothing the first left (the handler applied to its own
\* result returns that result).
C13_DriversOffIdempotent ==
    /\ [](\A o1 \in afterRun(M, TRUE, <<"d">>) :
             /\ o1.out = <<"OK DRIVERS OFF">> /\ ~o1.hung
             /\ \A a \in Axes : ~Enabled(o1.m, a)
             /\ afterRun(o1.m, TRUE, <<"d">>) = {o1})
    /\ [][  /\ Dispatched({"d", "D"}) =>
                 /\ out' = <<"OK DRIVERS OFF">>
                 /\ \A a \in Axes : ~Enabled(M', a)
            /\ (Dispatched({"d", "D"}) /\ ReadCommand /\ Trigger(line) \in {"d", "D"}) =>
                 /\ out' = out /\ OnlyRun
                 /\ UNCHANGED <<targetPos, maxSpd, accel, microstep_resolution,
                                pin, dir, hung>>
          ]_vars

\* a d has switched the drivers off in the middle of a move, and the peer
\* can send another
C13_Witness ==
    /\ ReadCommand /\ line = <<"d">> /\ out = <<"OK DRIVERS OFF">>
    /\ \A a \in Axes : ~Enabled(M, a) /\ distanceToGo(M, a) # 0
    /\ cmds = 2

\* the position of axis a once a due step towards its target is made
Stepped(m, a) == m.currentPos[a] + Sgn(distanceToGo(m, a))
\* a pass of loop() on input (av, raw) can make the due step of every axis
CanStep(av, raw) ==
    \E o \in loop(M, av, raw) : \A a \in Axes : o.m.currentPos[a] = Stepped(M, a)

\* the peer can still send the line: a command only within the budget
Sendable(raw) == NonEmpty(raw) => cmds < MaxCmds

\* C14: in every pass of loop(), with no input, an empty line or any
\* command, each axis is run once before the input is looked at: the due
\* step of an axis can be made in the pass whatever the input is, a Q of the
\* same pass already sees it, and no pass moves an axis by more than that
\* one step, so no handler runs a move to its end.
C14_RunEveryCycle ==
    /\ []((~hung /\ Busy(M)) =>
             /\ CanStep(FALSE, <<>>)
             /\ \A raw \in Lines : Sendable(raw) => CanStep(TRUE, raw)
             /\ (cmds < MaxCmds /\ \A a \in Axes : Abs(distanceToGo(M, a)) <= 1) =>
                    \E o \in loop(M, TRUE, <<"Q">>) : o.out = <<"DONE">>)
    /\ [][ \A a \in Axes :
               currentPos'[a] \in {currentPos[a], Stepped(M, a)} ]_vars

\* an M has been answered at once, its move outstanding, after an earlier
\* move had been advanced step by step
C14_Witness ==
    /\ ReadCommand /\ Trigger(line) = "M" /\ out = <<"OK M">>
    /\ currentPos[rot] # 0 /\ cmds = 2 /\ Busy(M)

\* the pairs of targets of the two axes
Targets == [Axes -> -MaxPos..MaxPos]

\* C15: once a target is set (by an accepted M, a jog or a stop) and an axis
\* has distance to go, then, loop() being called on and on, either a later
\* command changes the target or both axes come to distance to go 0; a Q
\* replies DONE exactly when it finds both at 0 and BUSY until then.
C15_MoveCompletes ==
    /\ \A t \in Targets :
           (targetPos = t /\ Busy(M)) ~> (~Busy(M) \/ targetPos # t)
    /\ [][ Dispatched({"Q", "q"}) =>
               /\ (out' = <<"DONE">>) <=> ~Busy(M')
               /\ (out' = <<"BUSY">>) <=> Busy(M')
               /\ targetPos' = targetPos
          ]_vars

\* an m has moved both axes back by one pulse and the Q behind it found the
\* move complete
C15_Witness ==
    /\ ReadCommand /\ line = <<"Q">> /\ out = <<"DONE">>
    /\ \A a \in Axes : currentPos[a] = -1 /\ targetPos[a] = -1

\* C16: the d, e and Q handlers leave the position and the target of both
\* axes as they find them: a target outstanding when d disables the drivers
\* is still there after it and after a later e, and run() goes on stepping
\* towards it (it did not stop stepping in between either).
C16_EnableKeepsTargets ==
    /\ [](\A ln \in {<<"d">>, <<"e">>, <<"E">>, <<"Q">>} :
             \A o \in afterRun(M, TRUE, ln) :
                 /\ o.m.currentPos = currentPos /\ o.m.targetPos = targetPos
                 /\ \A a \in Axes : run(o.m, a) = {[m EXCEPT !.pin = o.m.pin] : m \in run(M, a)})
    /\ [](\A o1 \in afterRun(M, TRUE, <<"d">>) :
             \A m1 \in runBoth(o1.m) : \A o2 \in afterRun(m1, TRUE, <<"e">>) :
                 /\ o2.m.targetPos = targetPos
                 /\ \A a \in Axes : Enabled(o2.m, a)
                 /\ \A a \in Axes : distanceToGo(o2.m, a) # 0 =>
                        \E m2 \in run(o2.m, a) : m2.currentPos[a] = Stepped(o2.m, a))
    /\ [][ Dispatched({"d", "D", "e", "E", "Q", "q"}) =>
               targetPos' = targetPos /\ OnlyRun ]_vars

\* an e has switched the drivers on again with the target of a move still
\* outstanding
C16_Witness ==
    /\ ReadCommand /\ line = <<"e">> /\ out = <<"OK DRIVERS ON">>
    /\ cmds = 3 /\ currentPos[rot] # 0
    /\ \A a \in Axes : Enabled(M, a) /\ distanceToGo(M, a) # 0

MicrostepChars == {"1", "2", "4", "8", "6"}

\* C17: a microstep command changes the resolution and the select lines
\* only: position and target of both axes, and so the distance to go, keep
\* their numbers (pulses queued are not converted), speed settings, enable
\* line and directions stay; and getOutputStepsPerRotation of an axis is
\* the same number at every resolution.
C17_MicrostepFrame ==
    /\ [](/\ \A c \in MicrostepChars : \A o \in afterRun(M, TRUE, <<c>>) :
                 /\ o.m.currentPos = currentPos /\ o.m.targetPos = targetPos
                 /\ \A a \in Axes : distanceToGo(o.m, a) = distanceToGo(M, a)
                 /\ o.m.maxSpd = maxSpd /\ o.m.accel = accel /\ o.m.dir = dir
                 /\ \A a \in Axes : o.m.pin[enable_pin[a]] = pin[enable_pin[a]]
                 /\ \A a \in Axes :
                        Revolution(o.m, a) \div o.m.microstep_resolution[a]
                            = Revolution(M, a) \div microstep_resolution[a]
          /\ \A a \in Axes :
                 Revolution(M, a) = getOutputStepsPerRotation(a) * microstep_resolution[a]
          /\ getOutputStepsPerRotation(rot) = 1134
          /\ getOutputStepsPerRotation(til) = 4650)
    /\ [][ Dispatched(MicrostepChars) =>
               /\ targetPos' = targetPos /\ OnlyRun
               /\ UNCHANGED <<maxSpd, accel, dir>>
               /\ \A a \in Axes : pin'[enable_pin[a]] = pin[enable_pin[a]]
          ]_vars

\* the resolution went from 16 to 1 with a pulse of the pan move still to go
C17_Witness ==
    /\ ReadCommand /\ line = <<"1">> /\ out = <<"OK MICROSTEP 1">>
    /\ microstep_resolution[rot] = 1 /\ cmds = 2
    /\ distanceToGo(M, rot) # 0 /\ Enabled(M, rot)

JogChars == {"n", "N", "c", "C", "w", "W", "p", "P"}

\* C18: a driver goes from disabled to enabled only in a pass that reads an
\* M or an e, and from enabled to disabled only in one that reads a d or a
\* Q; a jog (n, c, w, p) sets a target and leaves every pin as it is, so
\* after a jog from the boot state the drivers are disabled and run() still
\* advances the position towards the target.
C18_EnableOnlyByCommand ==
    /\ [][  /\ (\E a \in Axes : ~Enabled(M, a) /\ Enabled(M', a)) =>
                  Dispatched({"M", "m", "e", "E"})
            /\ (\E a \in Axes : Enabled(M, a) /\ ~Enabled(M', a)) =>
                  Dispatched({"Q", "q", "d", "D"})
            /\ Dispatched(JogChars) =>
                  /\ pin' = pin /\ OnlyRun
                  /\ out' \in {<<"OK ROT STEP">>, <<"OK ROT REV">>,
                                <<"OK TILT STEP">>, <<"OK TILT REV">>}
                  /\ \E a \in Axes : targetPos'[a] # currentPos'[a]
          ]_vars
    /\ []((~hung /\ Busy(M) /\ \A a \in Axes : ~Enabled(M, a)) =>
              CanStep(FALSE, <<>>))

\* the only command since boot was a tilt jog: the drivers are disabled and
\* the tilt position has advanced
C18_Witness ==
    /\ cmds = 1 /\ \A a \in Axes : ~Enabled(M, a)
    /\ currentPos[til] = 1 /\ targetPos[rot] = 0

\* the factor of a speed line, in tenths
Factor(raw) == IF Trigger(raw) = "+" THEN 11 ELSE 9

\* C19: each + or - multiplies the pan max speed it finds by its factor, so
\* that the speed is the boot speed times the product of all factors sent,
\* and sets the pan acceleration to the boot acceleration times that one
\* factor, so that the acceleration is always 80, 88 or 72; the handler
\* returns.
C19_SpeedCompounds ==
    /\ [](/\ accel[rot] \in {ROT_ACCEL0, TimesFactor(ROT_ACCEL0, 11),
                              TimesFactor(ROT_ACCEL0, 9)}
          /\ maxSpd[rot] > 0)
    /\ [][ Dispatched({"+", "-"}) =>
               /\ maxSpd'[rot] = TimesFactor(maxSpd[rot], Factor(line'))
               /\ accel'[rot] = TimesFactor(ROT_ACCEL0, Factor(line'))
               /\ accel'[til] = TimesRatio(accel'[rot])
               /\ ~hung'
          ]_vars

\* C20: the two steppers are given the same enable pin, so in every
\* reachable state the pan driver is enabled exactly when the tilt driver
\* is, and enable() or disable() of either stepper switches both.
C20_SharedEnable ==
    /\ enable_pin[rot] = enable_pin[til]
    /\ Enabled(M, rot) <=> Enabled(M, til)
    /\ \A a \in Axes : \A b \in Axes :
           Enabled(enable(M, a), b) /\ ~Enabled(disable(M, a), b)

\* an E as the first command has switched both drivers on
C20_Witness ==
    /\ ReadCommand /\ line = <<"E">> /\ out = <<"OK DRIVERS ON">> /\ cmds = 1
    /\ Enabled(M, rot) /\ Enabled(M, til)

====
